---- MODULE Spec2Model ----
(***************************************************************************)
(* Model of streamlit-f1-app.py: the cached session loader and schedule    *)
(* lookup, the st.session_state kept across script reruns, and the lap     *)
(* aggregation / telemetry functions that main() applies to a session.     *)
(*                                                                         *)
(* Two specifications:                                                     *)
(*   Spec     the script reruns of main(): schedule lookup, the "Load      *)
(*            Session Data" button, the caches and st.session_state.       *)
(*   LapSpec  create_lap_time_chart, the sector / fastest-lap / summary    *)
(*            tables and create_telemetry_plot over bounded sessions.      *)
(*                                                                         *)
(* Python values are tagged records: None is [type |-> "NoneType"], a      *)
(* pandas Timedelta is [type |-> "Timedelta", seconds |-> n], NaT and NaN  *)
(* are their own tags.  Driver numbers are strings of digits, modelled as  *)
(* sequences of digits so that sorted() orders them as Python orders       *)
(* strings.                                                                *)
(***************************************************************************)
EXTENDS Integers, Sequences, FiniteSets, TLC

VARIABLES
    now,              \* wall clock, seconds
    session_cache,    \* st.cache_data(ttl=3600) store of load_session_data
    schedule_cache,   \* st.cache_data store of get_schedule
    session_state,    \* st.session_state: a dict keyed by "session", "drivers"
    dashboard,        \* what the last run of main() rendered below the sidebar
    last,             \* history: the last run of main()
    reqLog,           \* history: per key, the latest load request
    fetchLog,         \* history: per key, the latest call of the provider
    schedLog,         \* history: per year, the latest schedule returned
    lastSuccess,      \* history: the latest load result that was a session
    session_laps,     \* LapSpec: session.laps
    selected_drivers, \* LapSpec: the multiselect's value
    pc,               \* LapSpec: which part of the dashboard is next
    lap_data,         \* LapSpec: result of create_lap_time_chart
    sector_data,      \* LapSpec: lap_data grouped by Driver, mean
    fastest_df,       \* LapSpec: the "Fastest Laps" table
    avg_df,           \* LapSpec: the "Average Lap Times" table
    telemetry         \* LapSpec: the call of create_telemetry_plot and its result

appVars == <<now, session_cache, schedule_cache, session_state, dashboard,
             last, reqLog, fetchLog, schedLog, lastSuccess>>
lapVars == <<session_laps, selected_drivers, pc, lap_data, sector_data,
             fastest_df, avg_df, telemetry>>
vars == <<appVars, lapVars>>

----------------------------------------------------------------------------
(* Python values *)

None == [type |-> "NoneType"]
NaT == [type |-> "NaT"]
NaN == [type |-> "NaN"]
Timedelta(s) == [type |-> "Timedelta", seconds |-> s]
Float(v) == [type |-> "float", value |-> v]

\* pd.notnull
notnull(x) == x.type \notin {"NoneType", "NaT", "NaN"}

\* Timedelta.total_seconds(); NaT.total_seconds() is nan
total_seconds(td) == IF td.type = "Timedelta" THEN Float(td.seconds) ELSE NaN

----------------------------------------------------------------------------
(* Bounds of the model *)

MaxTicks == 2
TickSeconds == 1800
MaxSessionLaps == 3

\* ttl of load_session_data's cache, seconds
TTL == 3600

----------------------------------------------------------------------------
(* Strings of digits and Python's sorted() on them *)

RECURSIVE StrLess(_, _)
StrLess(a, b) ==
    IF a = <<>> THEN b # <<>>
    ELSE IF b = <<>> THEN FALSE
    ELSE IF Head(a) # Head(b) THEN Head(a) < Head(b)
    ELSE StrLess(Tail(a), Tail(b))

RECURSIVE InsertStr(_, _)
InsertStr(x, s) ==
    IF s = <<>> THEN <<x>>
    ELSE IF StrLess(x, Head(s)) THEN <<x>> \o s
    ELSE <<Head(s)>> \o InsertStr(x, Tail(s))

RECURSIVE sorted(_)
sorted(s) == IF s = <<>> THEN <<>> ELSE InsertStr(s[Len(s)], sorted(SubSeq(s, 1, Len(s) - 1)))

\* list[:n]
Take(s, n) == SubSeq(s, 1, IF Len(s) < n THEN Len(s) ELSE n)

----------------------------------------------------------------------------
(* The external provider, as far as main() sees it *)

\* years offered by the "Select Year" box that the model draws from
Years == {2024, 2025}

\* session_types
session_types == <<"R", "Q", "FP1", "FP2", "FP3", "S">>

\* the (year, session kind) selections the model draws from
Selections == {<<2024, session_types[1]>>, <<2024, session_types[2]>>, <<2025, session_types[1]>>}

\* fastf1.get_event_schedule(year)
EventSchedule(year) ==
    [type |-> "EventSchedule",
     EventName |-> IF year = 2024 THEN <<"Bahrain Grand Prix">> ELSE <<"Monaco Grand Prix">>]

\* session.drivers of the session the provider returns for an event
DriversOf(grand_prix) ==
    IF grand_prix = "Bahrain Grand Prix" THEN << <<4, 4>>, <<1>>, <<1, 6>>, <<4>> >>
    ELSE << <<8, 1>>, <<1, 1>> >>

\* fastf1.get_session(year, grand_prix, session_type) after session.load()
Session(year, grand_prix, session_type) ==
    [type |-> "Session", year |-> year, event |-> grand_prix,
     kind |-> session_type, drivers |-> DriversOf(grand_prix)]

Raise == [type |-> "Exception"]

Range(s) == {s[i] : i \in DOMAIN s}

Keys == UNION {{<<sel[1], e, sel[2]>> : e \in Range(EventSchedule(sel[1]).EventName)} :
               sel \in Selections}

NoEntry == [type |-> "NoEntry"]
NoRequest == [type |-> "NoRequest"]

----------------------------------------------------------------------------
(* load_session_data and get_schedule behind st.cache_data *)

\* the body of load_session_data: an exception becomes None
load_session_data(outcome) == IF outcome.type = "Exception" THEN None ELSE outcome

\* st.cache_data(ttl=3600): an entry is served until ttl seconds after it was
\* written; reading it does not renew it
CacheFresh(entry, t) == entry.type = "Entry" /\ t < entry.time + TTL

\* st.cache_data stores whatever the function returned, None included
CacheWriteSkipNone(cache, key, value, t) ==
    IF value.type = "NoneType" THEN cache
    ELSE [cache EXCEPT ![key] = [type |-> "Entry", value |-> value, time |-> t]]

CacheWrite(cache, key, value, t) ==
    [cache EXCEPT ![key] = [type |-> "Entry", value |-> value, time |-> t]]

\* load_session_data(year, grand_prix, session_type) as main() calls it
cached_load_session_data(cache, key, outcome, t) ==
    IF CacheFresh(cache[key], t)
    THEN [result |-> cache[key].value, cache |-> cache, fetched |-> FALSE]
    ELSE [result |-> load_session_data(outcome),
          cache |-> CacheWrite(cache, key, load_session_data(outcome), t),
          fetched |-> TRUE]

\* get_schedule(year) when the provider answers: cached per year, no expiry
cached_get_schedule(cache, year) ==
    IF cache[year].type # "NoEntry"
    THEN [result |-> cache[year], cache |-> cache, fetched |-> FALSE]
    ELSE [result |-> EventSchedule(year),
          cache |-> [cache EXCEPT ![year] = EventSchedule(year)],
          fetched |-> TRUE]

----------------------------------------------------------------------------
(* st.session_state and the dashboard gate *)

\* Python truth of the values main() tests: None and 0 are false
Truthy(x) == x.type # "NoneType" /\ (x.type = "int" => x.value # 0)

\* the button handler's stores into st.session_state, without the "if session:"
StoreLoadedUnguarded(state, session) ==
    [k \in DOMAIN state \cup {"session", "drivers"} |->
        IF k = "session" THEN session
        ELSE IF session.type = "NoneType" THEN <<>> ELSE sorted(session.drivers)]

\* the button handler's stores, keeping the previous driver list
StoreLoadedStaleDrivers(state, session) ==
    IF Truthy(session)
    THEN [k \in DOMAIN state \cup {"session", "drivers"} |->
            IF k = "session" THEN session
            ELSE IF "drivers" \in DOMAIN state THEN state["drivers"] ELSE session.drivers]
    ELSE state

\* the button handler: store the session and its sorted drivers, only if loaded
StoreLoaded(state, session) ==
    IF Truthy(session)
    THEN [k \in DOMAIN state \cup {"session", "drivers"} |->
            IF k = "session" THEN session ELSE sorted(session.drivers)]
    ELSE state

\* "if 'session' in st.session_state:" and the multiselect's default
RenderDashboard(state) ==
    IF "session" \in DOMAIN state
    THEN [rendered |-> TRUE, options |-> state["drivers"], default |-> Take(state["drivers"], 3)]
    ELSE [rendered |-> FALSE, options |-> <<>>, default |-> <<>>]

NotRendered == [rendered |-> FALSE, options |-> <<>>, default |-> <<>>]

----------------------------------------------------------------------------
(* Script reruns of main() *)

EmptyState == [k \in {} |-> None]

AppInit ==
    /\ now = 0
    /\ session_cache = [k \in Keys |-> NoEntry]
    /\ schedule_cache = [y \in Years |-> NoEntry]
    /\ session_state = EmptyState
    /\ dashboard = NotRendered
    /\ last = [kind |-> "init"]
    /\ reqLog = [k \in Keys |-> NoRequest]
    /\ fetchLog = [k \in Keys |-> NoRequest]
    /\ schedLog = [y \in Years |-> NoRequest]
    /\ lastSuccess = None

\* time passes between interactions
Tick ==
    /\ now + TickSeconds <= MaxTicks * TickSeconds
    /\ now' = now + TickSeconds
    /\ UNCHANGED <<session_cache, schedule_cache, session_state, dashboard,
                   last, reqLog, fetchLog, schedLog, lastSuccess>>

\* a rerun in which get_schedule raises: nothing is cached, the run stops there
MainScheduleError(year) ==
    /\ schedule_cache[year].type = "NoEntry"
    /\ dashboard' = NotRendered
    /\ last' = [kind |-> "error", time |-> now, year |-> year]
    /\ UNCHANGED <<now, session_cache, schedule_cache, session_state,
                   reqLog, fetchLog, schedLog, lastSuccess>>

\* a rerun without a press of "Load Session Data"
MainRender(year) ==
    LET sched == cached_get_schedule(schedule_cache, year) IN
    /\ schedule_cache' = sched.cache
    /\ dashboard' = RenderDashboard(session_state)
    /\ schedLog' = [schedLog EXCEPT ![year] = [type |-> "Request", result |-> sched.result]]
    /\ last' = [kind |-> "render", time |-> now, year |-> year,
                schedFetched |-> sched.fetched, schedResult |-> sched.result,
                prevSched |-> schedLog[year]]
    /\ UNCHANGED <<now, session_cache, session_state, reqLog, fetchLog, lastSuccess>>

\* a rerun with "Load Session Data" pressed
MainLoad(year, i, session_type, fails) ==
    LET sched == cached_get_schedule(schedule_cache, year)
        races == sched.result.EventName
        grand_prix == races[i]
        key == <<year, grand_prix, session_type>>
        outcome == IF fails THEN Raise ELSE Session(year, grand_prix, session_type)
        load == cached_load_session_data(session_cache, key, outcome, now)
    IN
    /\ i \in DOMAIN races
    /\ schedule_cache' = sched.cache
    /\ session_cache' = load.cache
    /\ session_state' = StoreLoaded(session_state, load.result)
    /\ dashboard' = RenderDashboard(session_state')
    /\ schedLog' = [schedLog EXCEPT ![year] = [type |-> "Request", result |-> sched.result]]
    /\ reqLog' = [reqLog EXCEPT ![key] =
                    [type |-> "Request", time |-> now, result |-> load.result]]
    /\ fetchLog' = IF load.fetched
                   THEN [fetchLog EXCEPT ![key] =
                           [type |-> "Request", time |-> now, result |-> load.result]]
                   ELSE fetchLog
    /\ lastSuccess' = IF load.result.type # "NoneType" THEN load.result ELSE lastSuccess
    /\ last' = [kind |-> "load", time |-> now, year |-> year,
                schedFetched |-> sched.fetched, schedResult |-> sched.result,
                prevSched |-> schedLog[year],
                key |-> key, fetched |-> load.fetched, result |-> load.result,
                prevReq |-> reqLog[key], prevFetch |-> fetchLog[key],
                pre |-> session_state]
    /\ UNCHANGED now

LapIdle ==
    /\ session_laps = <<>>
    /\ selected_drivers = <<>>
    /\ pc = "idle"
    /\ lap_data = None
    /\ sector_data = None
    /\ fastest_df = None
    /\ avg_df = None
    /\ telemetry = None

Init == AppInit /\ LapIdle

Next ==
    \/ Tick /\ UNCHANGED lapVars
    \/ \E year \in Years : MainScheduleError(year) /\ UNCHANGED lapVars
    \/ \E year \in Years : MainRender(year) /\ UNCHANGED lapVars
    \/ \E sel \in Selections, fails \in BOOLEAN :
       \E i \in DOMAIN EventSchedule(sel[1]).EventName :
          MainLoad(sel[1], i, sel[2], fails) /\ UNCHANGED lapVars

Spec == Init /\ [][Next]_vars

----------------------------------------------------------------------------
(* Properties of the script reruns (specification Spec) *)

IsLoaded(state) == "session" \in DOMAIN state

\* C1: a "Load Session Data" press whose load returns None leaves
\* st.session_state (the stored session and the stored driver list) exactly as
\* it was before the press.
Thm_C1_FailedLoadKeepsState ==
    (last.kind = "load" /\ last.result.type = "NoneType") => session_state = last.pre

\* a failed load after a session had been stored
Wit_C1_FailedLoadAfterSuccess ==
    /\ last.kind = "load"
    /\ last.result.type = "NoneType"
    /\ IsLoaded(last.pre)
    /\ IsLoaded(session_state)

\* C7 as stated: a load request whose key equals that of ANY earlier request
\* made less than ttl seconds before returns that request's result without a
\* call of the provider; the schedule lookup returns the schedule an earlier
\* request for the year returned, without a call of the provider.
CEx_C7_AnyEarlierRequest ==
    /\ (last.kind = "load" /\ last.prevReq.type = "Request"
            /\ last.time < last.prevReq.time + TTL)
          => (~last.fetched /\ last.result = last.prevReq.result)
    /\ (last.kind \in {"load", "render"} /\ last.prevSched.type = "Request")
          => (~last.schedFetched /\ last.schedResult = last.prevSched.result)

\* C7 amended: a load request whose key equals that of an earlier request that
\* called the provider less than ttl seconds before returns that request's
\* result (a session or None) without a call of the provider; the schedule
\* lookup returns the schedule an earlier request for the year returned,
\* without a call of the provider, however long ago.
Thm_C7_CachedWithinTtlOfFetch ==
    /\ (last.kind = "load" /\ last.prevFetch.type = "Request"
            /\ last.time < last.prevFetch.time + TTL)
          => (~last.fetched /\ last.result = last.prevFetch.result)
    /\ (last.kind \in {"load", "render"} /\ last.prevSched.type = "Request")
          => (~last.schedFetched /\ last.schedResult = last.prevSched.result)

\* a repeated request, later than but within ttl of a fetch that had failed,
\* in a run whose schedule came from the cache
Wit_C7_RepeatOfFailedFetch ==
    /\ last.kind = "load"
    /\ last.prevFetch.type = "Request"
    /\ last.prevFetch.time < last.time
    /\ last.time < last.prevFetch.time + TTL
    /\ last.prevFetch.result.type = "NoneType"
    /\ last.prevSched.type = "Request"

\* list is ordered as Python orders strings and has the elements of drivers
IsSortedListOf(list, drivers) ==
    /\ Len(list) = Len(drivers)
    /\ Range(list) = Range(drivers)
    /\ \A i, j \in DOMAIN list : i < j => ~StrLess(list[j], list[i])

\* C10: a session is stored iff some load has succeeded; the stored session is
\* the result of the most recent successful load; the stored driver list is
\* the sorted driver list of the stored session; the dashboard is rendered
\* only when a session is stored.
Thm_C10_StateFollowsLastSuccess ==
    /\ IsLoaded(session_state) <=> lastSuccess.type = "Session"
    /\ IsLoaded(session_state) =>
          /\ session_state["session"] = lastSuccess
          /\ "drivers" \in DOMAIN session_state
          /\ IsSortedListOf(session_state["drivers"], session_state["session"].drivers)
    /\ dashboard.rendered => IsLoaded(session_state)

\* a successful load that replaces a different stored session, dashboard shown
Wit_C10_SessionSuperseded ==
    /\ last.kind = "load"
    /\ last.result.type = "Session"
    /\ IsLoaded(last.pre)
    /\ last.pre["session"].drivers # last.result.drivers
    /\ session_state["session"] = last.result
    /\ dashboard.rendered

----------------------------------------------------------------------------
(* A loaded session, as the aggregation functions see it *)

PyInt(n) == [type |-> "int", value |-> n]

\* session.drivers
LapDrivers == << <<1>>, <<1, 6>> >>

\* session.get_driver(driver)['Abbreviation']
Abbreviation(driver) == IF driver = <<1>> THEN "VER" ELSE "LEC"

\* the lap times and the sector-time triples the model draws a lap from
LapTimes == {NaT, Timedelta(90), Timedelta(91)}
SectorTimes == { <<Timedelta(30), Timedelta(30), Timedelta(31)>>,
                 <<NaT, Timedelta(32), NaT>> }
LapChoices == LapTimes \X SectorTimes

\* one row of session.laps
Lap(driver, number, choice) ==
    [type |-> "Lap", DriverNumber |-> driver, LapNumber |-> number,
     LapTime |-> choice[1], Compound |-> "SOFT", SpeedI2 |-> Float(300),
     Sector1Time |-> choice[2][1], Sector2Time |-> choice[2][2],
     Sector3Time |-> choice[2][3]]

\* a driver's laps, numbered from 1
LapsOfDriver(driver, choices) == [i \in DOMAIN choices |-> Lap(driver, i, choices[i])]

\* session.laps: the drivers' laps one driver after the other
SessionLaps ==
    UNION {{LapsOfDriver(LapDrivers[1], c1) \o LapsOfDriver(LapDrivers[2], c2) :
               c1 \in [1..n[1] -> LapChoices], c2 \in [1..n[2] -> LapChoices]} :
           n \in {m \in (0..MaxSessionLaps) \X (0..MaxSessionLaps) :
                     m[1] + m[2] <= MaxSessionLaps}}

\* values of the multiselect: drivers of the session, each at most once, in the
\* order they were selected
DriverSelections ==
    {<<>>} \cup {<<d>> : d \in Range(LapDrivers)}
           \cup {p \in {<<d, e>> : d \in Range(LapDrivers), e \in Range(LapDrivers)} :
                    p[1] # p[2]}

DataFrame(rows) == [type |-> "DataFrame", rows |-> rows]

\* session.laps.pick_driver(driver)
pick_driver(laps, driver) == SelectSeq(laps, LAMBDA l : l.DriverNumber = driver)

\* Laps.pick_lap(lap_number): the laps with that number, possibly none
pick_lap(laps, lap_number) ==
    [type |-> "Laps", rows |-> SelectSeq(laps, LAMBDA l : l.LapNumber = lap_number)]

\* Laps.pick_fastest() taking the first lap that has a time
RECURSIVE pick_first_timed(_)
pick_first_timed(laps) ==
    IF laps = <<>> THEN None
    ELSE IF notnull(Head(laps).LapTime) THEN Head(laps)
    ELSE pick_first_timed(Tail(laps))

\* Laps.pick_fastest(): the lap of minimum lap time, the earliest of equals;
\* None when no lap has a time
RECURSIVE pick_fastest(_)
pick_fastest(laps) ==
    IF laps = <<>> THEN None
    ELSE LET rest == pick_fastest(SubSeq(laps, 1, Len(laps) - 1))
             l == laps[Len(laps)]
         IN IF ~notnull(l.LapTime) THEN rest
            ELSE IF rest.type = "NoneType" THEN l
            ELSE IF l.LapTime.seconds < rest.LapTime.seconds THEN l
            ELSE rest

----------------------------------------------------------------------------
(* create_lap_time_chart *)

\* a lap is reported whatever its lap time
RowWantedAlways(lap) == TRUE

\* "if pd.notnull(lap['LapTime'])"
RowWanted(lap) == notnull(lap.LapTime)

\* a sector cell: seconds, or None (NaN once in the DataFrame)
SectorCell(td) == IF notnull(td) THEN total_seconds(td) ELSE NaN

\* the dict appended for one lap
LapRow(abbreviation, lap) ==
    [Driver |-> abbreviation, LapNumber |-> lap.LapNumber,
     LapTime |-> total_seconds(lap.LapTime), Compound |-> lap.Compound,
     Sector1 |-> SectorCell(lap.Sector1Time),
     Sector2 |-> SectorCell(lap.Sector2Time),
     Sector3 |-> SectorCell(lap.Sector3Time)]

\* the inner loop over driver_laps.iterrows()
RECURSIVE DriverRows(_, _)
DriverRows(abbreviation, driver_laps) ==
    IF driver_laps = <<>> THEN <<>>
    ELSE (IF RowWanted(Head(driver_laps))
          THEN <<LapRow(abbreviation, Head(driver_laps))>> ELSE <<>>)
         \o DriverRows(abbreviation, Tail(driver_laps))

\* the outer loop over selected_drivers
RECURSIVE lap_times_data(_, _)
lap_times_data(laps, selected) ==
    IF selected = <<>> THEN <<>>
    ELSE DriverRows(Abbreviation(Head(selected)), pick_driver(laps, Head(selected)))
         \o lap_times_data(laps, Tail(selected))

\* "return pd.DataFrame(lap_times_data)" without the "else None"
ChartResultAlwaysFrame(rows) == DataFrame(rows)

\* "return pd.DataFrame(lap_times_data) if lap_times_data else None"
ChartResult(rows) == IF rows # <<>> THEN DataFrame(rows) ELSE None

create_lap_time_chart(laps, selected) == ChartResult(lap_times_data(laps, selected))

----------------------------------------------------------------------------
(* Means, standard deviation and sorting as pandas computes them *)

Mean(num, den) == [type |-> "mean", num |-> num, den |-> den]

\* the number a cell holds: a float, a Timedelta or a mean
Num(x) == IF x.type = "float" THEN x.value ELSE IF x.type = "Timedelta" THEN x.seconds ELSE x.num
Den(x) == IF x.type = "mean" THEN x.den ELSE 1

RECURSIVE SumCells(_)
SumCells(cells) ==
    IF cells = <<>> THEN 0
    ELSE (IF notnull(Head(cells)) THEN Num(Head(cells)) ELSE 0) + SumCells(Tail(cells))

RECURSIVE SumSquares(_)
SumSquares(cells) ==
    IF cells = <<>> THEN 0
    ELSE (IF notnull(Head(cells)) THEN Num(Head(cells)) * Num(Head(cells)) ELSE 0)
         + SumSquares(Tail(cells))

CountCells(cells) == Len(SelectSeq(cells, notnull))

\* a mean that takes a missing value for zero
MeanFillZero(cells, na) ==
    IF cells = <<>> THEN na ELSE Mean(SumCells(cells), Len(cells))

\* Series.mean(), GroupBy.mean(): missing values are skipped; all missing is na
MeanSkipNa(cells, na) ==
    IF CountCells(cells) = 0 THEN na ELSE Mean(SumCells(cells), CountCells(cells))

\* Series.std(): sample standard deviation, kept as its square
\* (n * sum(x^2) - sum(x)^2) / (n * (n - 1)); na below two values
StdSkipNa(cells, na) ==
    LET n == CountCells(cells) IN
    IF n < 2 THEN na
    ELSE [type |-> "std", var_num |-> n * SumSquares(cells) - SumCells(cells) * SumCells(cells),
          var_den |-> n * (n - 1)]

\* order of sort_values: ascending, missing values last
KeyLess(a, b) ==
    /\ notnull(a)
    /\ (~notnull(b) \/ Num(a) * Den(b) < Num(b) * Den(a))

RECURSIVE InsertRow(_, _, _)
InsertRow(row, rows, by) ==
    IF rows = <<>> THEN <<row>>
    ELSE IF KeyLess(row[by], Head(rows)[by]) THEN <<row>> \o rows
    ELSE <<Head(rows)>> \o InsertRow(row, Tail(rows), by)

\* DataFrame.sort_values(by)
RECURSIVE sort_values(_, _)
sort_values(rows, by) ==
    IF rows = <<>> THEN <<>>
    ELSE InsertRow(rows[Len(rows)], sort_values(SubSeq(rows, 1, Len(rows) - 1), by), by)

Column(rows, col) == [i \in DOMAIN rows |-> rows[i][col]]

sector_cols == <<"Sector1", "Sector2", "Sector3">>

\* lap_data[['Driver'] + sector_cols].groupby('Driver').mean(), indexed by Driver
SectorMeans(rows) ==
    [driver \in {rows[i].Driver : i \in DOMAIN rows} |->
        [col \in Range(sector_cols) |->
            MeanSkipNa(Column(SelectSeq(rows, LAMBDA r : r.Driver = driver), col), NaN)]]

----------------------------------------------------------------------------
(* The tables of the "Statistics" tab *)

\* the loop that fills fastest_laps
RECURSIVE fastest_laps(_, _)
fastest_laps(laps, selected) ==
    IF selected = <<>> THEN <<>>
    ELSE LET driver == Head(selected)
             driver_fastest == pick_fastest(pick_driver(laps, driver))
         IN (IF driver_fastest.type # "NoneType"
             THEN <<[Driver |-> driver, Time |-> driver_fastest.LapTime,
                     Lap |-> driver_fastest.LapNumber, Speed |-> driver_fastest.SpeedI2]>>
             ELSE <<>>)
            \o fastest_laps(laps, Tail(selected))

\* "if fastest_laps:" the table sorted by Time, else nothing is shown
FastestTable(laps, selected) ==
    IF fastest_laps(laps, selected) # <<>>
    THEN DataFrame(sort_values(fastest_laps(laps, selected), "Time"))
    ELSE None

\* the loop that fills avg_times
RECURSIVE avg_times(_, _)
avg_times(laps, selected) ==
    IF selected = <<>> THEN <<>>
    ELSE LET driver == Head(selected)
             driver_laps == pick_driver(laps, driver)
         IN (IF driver_laps # <<>>
             THEN <<[Driver |-> driver,
                     AverageTime |-> MeanSkipNa(Column(driver_laps, "LapTime"), NaT),
                     StdDev |-> StdSkipNa(Column(driver_laps, "LapTime"), NaT),
                     LapsCompleted |-> Len(driver_laps)]>>
             ELSE <<>>)
            \o avg_times(laps, Tail(selected))

\* "if avg_times:" the table sorted by Average Time, else nothing is shown
AverageTable(laps, selected) ==
    IF avg_times(laps, selected) # <<>>
    THEN DataFrame(sort_values(avg_times(laps, selected), "AverageTime"))
    ELSE None

----------------------------------------------------------------------------
(* create_telemetry_plot *)

\* the lap the plot is drawn from
SelectLap(laps, driver, lap_number) ==
    IF Truthy(lap_number)
    THEN pick_lap(pick_driver(laps, driver), lap_number.value)
    ELSE pick_fastest(pick_driver(laps, driver))

\* lap.get_telemetry() and the figure: a Laps object without rows has no
\* driver to take telemetry of, and get_telemetry raises
create_telemetry_plot(laps, driver, lap_number) ==
    LET lap == SelectLap(laps, driver, lap_number) IN
    IF lap.type # "NoneType"
    THEN IF lap.type = "Laps" /\ lap.rows = <<>>
         THEN Raise
         ELSE [type |-> "Figure",
               traces |-> <<"Speed", "Throttle", "Brake">>,
               source |-> IF lap.type = "Laps"
                          THEN {<<l.DriverNumber, l.LapNumber>> : l \in Range(lap.rows)}
                          ELSE {<<lap.DriverNumber, lap.LapNumber>>},
               title |-> [driver |-> driver,
                          LapNumber |-> IF lap.type = "Laps"
                                        THEN Column(lap.rows, "LapNumber")
                                        ELSE lap.LapNumber]]
    ELSE None

\* the lap_number arguments the model draws from
LapNumberArgs == {None} \cup {PyInt(n) : n \in 0..(MaxSessionLaps + 1)}

----------------------------------------------------------------------------
(* Applications of the functions to a session and a selection *)

LapInit ==
    /\ session_laps \in SessionLaps
    /\ selected_drivers \in DriverSelections
    /\ pc = "chart"
    /\ lap_data = None
    /\ sector_data = None
    /\ fastest_df = None
    /\ avg_df = None
    /\ telemetry = None

\* lap_data = create_lap_time_chart(session, selected_drivers)
CreateLapTimeChart ==
    /\ pc = "chart"
    /\ lap_data' = create_lap_time_chart(session_laps, selected_drivers)
    /\ pc' = IF selected_drivers # <<>> THEN "sectors" ELSE "telemetry"
    /\ UNCHANGED <<session_laps, selected_drivers, sector_data, fastest_df, avg_df, telemetry>>

\* "if lap_data is not None:" the sector averages
SectorTimesAnalysis ==
    /\ pc = "sectors"
    /\ sector_data' = IF lap_data.type # "NoneType" THEN SectorMeans(lap_data.rows) ELSE None
    /\ pc' = "fastest"
    /\ UNCHANGED <<session_laps, selected_drivers, lap_data, fastest_df, avg_df, telemetry>>

\* the "Fastest Laps" expander
FastestLaps ==
    /\ pc = "fastest"
    /\ fastest_df' = FastestTable(session_laps, selected_drivers)
    /\ pc' = "average"
    /\ UNCHANGED <<session_laps, selected_drivers, lap_data, sector_data, avg_df, telemetry>>

\* the "Average Lap Times" expander
AverageLapTimes ==
    /\ pc = "average"
    /\ avg_df' = AverageTable(session_laps, selected_drivers)
    /\ pc' = "telemetry"
    /\ UNCHANGED <<session_laps, selected_drivers, lap_data, sector_data, fastest_df, telemetry>>

\* create_telemetry_plot(session, driver, lap_number)
CreateTelemetryPlot(driver, lap_number) ==
    /\ pc = "telemetry"
    /\ telemetry' = [type |-> "Call", driver |-> driver, lap_number |-> lap_number,
                     result |-> create_telemetry_plot(session_laps, driver, lap_number)]
    /\ pc' = "done"
    /\ UNCHANGED <<session_laps, selected_drivers, lap_data, sector_data, fastest_df, avg_df>>

LapNext ==
    \/ CreateLapTimeChart /\ UNCHANGED appVars
    \/ SectorTimesAnalysis /\ UNCHANGED appVars
    \/ FastestLaps /\ UNCHANGED appVars
    \/ AverageLapTimes /\ UNCHANGED appVars
    \/ \E driver \in Range(LapDrivers), lap_number \in LapNumberArgs :
          CreateTelemetryPlot(driver, lap_number) /\ UNCHANGED appVars

LapSpecInit == AppInit /\ LapInit

LapSpec == LapSpecInit /\ [][LapNext]_vars

----------------------------------------------------------------------------
(* Properties of the aggregation functions (specification LapSpec) *)

RowsOf(df) == IF df.type = "DataFrame" THEN df.rows ELSE <<>>

\* positions in session.laps of a driver's laps, and of those with a lap time
LapsOf(driver) == {i \in DOMAIN session_laps : session_laps[i].DriverNumber = driver}
TimedLapsOf(driver) == {i \in LapsOf(driver) : session_laps[i].LapTime.type = "Timedelta"}

RECURSIVE SumOver(_, _)
SumOver(S, f) ==
    IF S = {} THEN 0
    ELSE LET x == CHOOSE y \in S : TRUE IN f[x] + SumOver(S \ {x}, f)

ChartDone == pc # "chart"
SectorsDone == pc \in {"fastest", "average"} \/ (pc \in {"telemetry", "done"} /\ selected_drivers # <<>>)
FastestDone == pc = "average" \/ (pc \in {"telemetry", "done"} /\ selected_drivers # <<>>)
AverageDone == pc \in {"telemetry", "done"} /\ selected_drivers # <<>>

\* C2: the lap table has exactly one row for each lap of a selected driver
\* that has a lap time, none for a lap without one, no other row; every row's
\* lap time is non-null and filtering the rows for a non-null lap time
\* changes nothing.
Thm_C2_OneRowPerTimedLap ==
    ChartDone =>
      LET rows == RowsOf(lap_data) IN
      /\ \A d \in Range(selected_drivers) : \A i \in LapsOf(d) :
            Cardinality({j \in DOMAIN rows :
                            /\ rows[j].Driver = Abbreviation(d)
                            /\ rows[j].LapNumber = session_laps[i].LapNumber})
              = IF i \in TimedLapsOf(d) THEN 1 ELSE 0
      /\ \A j \in DOMAIN rows :
            \E d \in Range(selected_drivers) : \E i \in TimedLapsOf(d) :
               /\ rows[j].Driver = Abbreviation(d)
               /\ rows[j].LapNumber = session_laps[i].LapNumber
               /\ rows[j].LapTime = Float(session_laps[i].LapTime.seconds)
      /\ \A j \in DOMAIN rows : rows[j].LapTime.type = "float"
      /\ SelectSeq(rows, LAMBDA r : notnull(r.LapTime)) = rows

\* a table built from a selection in which a lap with and a lap without a lap
\* time occur
Wit_C2_TimedAndUntimedLaps ==
    /\ ChartDone
    /\ lap_data.type = "DataFrame"
    /\ \E d \in Range(selected_drivers) : LapsOf(d) \ TimedLapsOf(d) # {}
    /\ \E d \in Range(selected_drivers) : Cardinality(TimedLapsOf(d)) >= 2

\* C3 as stated: in the "Average Lap Times" table every row's Laps Completed
\* equals the number of that driver's laps whose lap time is non-null.
CEx_C3_LapsCompletedCountsTimedLaps ==
    AverageDone =>
      \A j \in DOMAIN RowsOf(avg_df) :
         RowsOf(avg_df)[j].LapsCompleted = Cardinality(TimedLapsOf(RowsOf(avg_df)[j].Driver))

SectorIndex == IF lap_data.type = "DataFrame" /\ SectorsDone THEN DOMAIN sector_data ELSE {}

\* C4 as stated: a selected driver with laps but none with a lap time has no
\* row in the fastest-lap table, none in the "Average Lap Times" table and
\* none in the average-sector table.
CEx_C4_UntimedDriverInNoTable ==
    (pc = "done" /\ selected_drivers # <<>>) =>
      \A d \in Range(selected_drivers) :
         (LapsOf(d) # {} /\ TimedLapsOf(d) = {}) =>
            /\ \A j \in DOMAIN RowsOf(fastest_df) : RowsOf(fastest_df)[j].Driver # d
            /\ \A j \in DOMAIN RowsOf(avg_df) : RowsOf(avg_df)[j].Driver # d
            /\ Abbreviation(d) \notin SectorIndex

\* C5 as stated: create_telemetry_plot with an explicit lap number the driver
\* has no lap for returns None; when the driver has that lap the result is a
\* figure drawn from that lap only and titled with that lap's number.
CEx_C5_MissingLapIsAbsent ==
    (pc = "done" /\ telemetry.lap_number.type = "int" /\ telemetry.lap_number.value >= 1) =>
      LET n == telemetry.lap_number.value
          has == \E i \in LapsOf(telemetry.driver) : session_laps[i].LapNumber = n
      IN IF has
         THEN /\ telemetry.result.type = "Figure"
              /\ telemetry.result.source = {<<telemetry.driver, n>>}
              /\ telemetry.result.title.LapNumber = <<n>>
         ELSE telemetry.result.type = "NoneType"

Thm_C8_NoneIffNoTimedLap ==
    ChartDone =>
      /\ lap_data.type \in {"NoneType", "DataFrame"}
      /\ lap_data.type = "NoneType" <=>
            (selected_drivers = <<>> \/ \A d \in Range(selected_drivers) : TimedLapsOf(d) = {})
      /\ lap_data.type = "DataFrame" => Len(lap_data.rows) >= 1

\* drivers are selected and have laps, but no lap has a lap time
Wit_C8_SelectedDriversWithoutTimedLap ==
    /\ ChartDone
    /\ lap_data.type = "NoneType"
    /\ Len(selected_drivers) = 2
    /\ \A d \in Range(selected_drivers) : LapsOf(d) # {}

\* rows of the lap table of a driver, and those with a value in a sector column
RowsOfDriver(abbreviation) ==
    {j \in DOMAIN RowsOf(lap_data) : RowsOf(lap_data)[j].Driver = abbreviation}
PresentRows(abbreviation, col) ==
    {j \in RowsOfDriver(abbreviation) : RowsOf(lap_data)[j][col].type = "float"}

\* C9: the average-sector table has a row for each driver of the lap table;
\* a cell is the sum of the sector's present values over the driver's rows
\* divided by their number, and is absent (NaN) when the driver has no
\* present value for the sector.
Thm_C9_SectorMeanSkipsMissing ==
    (SectorsDone /\ lap_data.type = "DataFrame") =>
      /\ DOMAIN sector_data = {lap_data.rows[j].Driver : j \in DOMAIN lap_data.rows}
      /\ \A a \in DOMAIN sector_data : \A col \in Range(sector_cols) :
            LET present == PresentRows(a, col)
                cell == sector_data[a][col]
            IN IF present = {} THEN cell = NaN
               ELSE /\ cell.type = "mean"
                    /\ cell.den > 0
                    /\ cell.num * Cardinality(present)
                         = cell.den * SumOver(present, [j \in present |-> lap_data.rows[j][col].value])

\* one driver has a sector with a present and a missing value, another driver
\* has a sector without any present value
Wit_C9_MixedAndAllMissing ==
    /\ SectorsDone
    /\ lap_data.type = "DataFrame"
    /\ \E a \in DOMAIN sector_data : \E col \in Range(sector_cols) :
          /\ PresentRows(a, col) # {}
          /\ PresentRows(a, col) # RowsOfDriver(a)
    /\ \E a \in DOMAIN sector_data : \E col \in Range(sector_cols) :
          sector_data[a][col] = NaN

====
